---- MODULE Spec2Model ----
(***************************************************************************)
(* A model of src/main.ts: the pull-request labeler.  run() reads its      *)
(* inputs, builds the label -> globs map from the configuration, and then  *)
(* either handles the pull request of the triggering event or sweeps the   *)
(* paginated listing of the open pull requests under an operation budget.  *)
(*                                                                         *)
(* Strings whose characters matter (label names) are sequences of          *)
(* one-character strings: the label "ab" is <<"a", "b">>, the empty string *)
(* is <<>>.  Paths and glob patterns are sequences of path segments:       *)
(* "docs/**" is <<"docs", "**">>.                                          *)
(***************************************************************************)
EXTENDS Integers, Sequences, FiniteSets, TLC

(***************************************************************************)
(* Bounds of the model.                                                    *)
(***************************************************************************)
MaxOps == 2      \* largest operations-per-run input
MaxPRs == 2      \* largest number of open pull requests on the platform
MaxPage == 2     \* largest page size of the paginated listing
MaxFiles == 2    \* longest file list handed to checkGlobs on its own
MaxGlobs == 2    \* longest pattern list handed to checkGlobs on its own

(***************************************************************************)
(* The values the inputs are drawn from.                                   *)
(***************************************************************************)
EmptyString == <<>>
LabelA == <<"a">>
LabelAB == <<"a", "b">>
LabelN == <<"n">>

DocsGlob == <<"docs", "**">>
StarGlob == <<"*">>
LiteralGlob == <<"y">>
\* An array element of the configuration that is not a string (a YAML number).
NumberItem == <<"<number>">>

DocsFile == <<"docs", "x">>
TopFile == <<"x">>
DeepFile == <<"src", "a", "x">>
AnyDirGlob == <<"**", "x">>

NotFoundLabels == {EmptyString, LabelN}
OpsInputs == (0 - 1) .. MaxOps
\* The open pull requests of the platform: changed files and attached labels.
PullRequests ==
  { [files |-> <<>>, labels |-> <<>>],
    [files |-> <<DocsFile>>, labels |-> <<>>],
    [files |-> <<DocsFile>>, labels |-> <<LabelA>>],
    [files |-> <<TopFile, DocsFile>>, labels |-> <<LabelN, LabelAB>>] }

\* One entry of the parsed configuration object: label -> value.
StringEntry(label, glob) ==
  [label |-> label, kind |-> "string", str |-> glob, arr |-> <<>>]
ArrayEntry(label, globs) ==
  [label |-> label, kind |-> "array", str |-> <<>>, arr |-> globs]
OtherEntry(label, kind) ==
  [label |-> label, kind |-> kind, str |-> <<>>, arr |-> <<>>]

\* The parsed configurations: mappings with unique keys, in source order.
ValidConfigs ==
  { <<>>,
    <<StringEntry(LabelA, DocsGlob)>>,
    <<ArrayEntry(LabelAB, <<LiteralGlob, StarGlob>>)>>,
    <<StringEntry(LabelA, DocsGlob), ArrayEntry(LabelAB, <<LiteralGlob, StarGlob>>)>>,
    <<ArrayEntry(LabelAB, <<LiteralGlob, StarGlob>>), StringEntry(LabelA, DocsGlob)>>,
    <<ArrayEntry(LabelAB, <<>>)>>,
    <<StringEntry(LabelAB, DocsGlob), ArrayEntry(LabelA, <<NumberItem>>)>> }
InvalidConfigs ==
  { <<OtherEntry(LabelA, "number")>>,
    <<OtherEntry(LabelAB, "object")>>,
    <<StringEntry(LabelA, DocsGlob), OtherEntry(LabelAB, "null")>>,
    <<OtherEntry(LabelAB, "number"), StringEntry(LabelA, DocsGlob)>>,
    <<OtherEntry(LabelA, "null"), OtherEntry(LabelAB, "number")>> }
ConfigObjects == ValidConfigs \cup InvalidConfigs

Min(a, b) == IF a < b THEN a ELSE b

\* The sequences over S of length at most n.
SeqsUpTo(S, n) == UNION { [1 .. k -> S] : k \in 0 .. n }

\* The arguments checkGlobs is called with on its own.
CheckFiles == {DocsFile, TopFile, DeepFile}
CheckGlobs == {DocsGlob, StarGlob, LiteralGlob, AnyDirGlob, NumberItem}
CheckArgs ==
  { [changedFiles |-> f, globs |-> g] :
      f \in SeqsUpTo(CheckFiles, MaxFiles), g \in SeqsUpTo(CheckGlobs, MaxGlobs) }

(***************************************************************************)
(* Pure functions of main.ts.                                              *)
(***************************************************************************)

\* new Set(...names): the spread hands every name to the constructor as an
\* argument of its own, and Set reads only the first argument, as an iterable:
\* the set of the characters of the first name (empty without arguments).
SetOfSpread(names) ==
  IF names = <<>> THEN {}
  ELSE { <<names[1][i]>> : i \in 1 .. Len(names[1]) }

\* Minimatch's match of one path by one pattern, segment by segment: "**"
\* swallows the rest when it ends the pattern and otherwise any number of
\* segments, "*" is any one segment, any other segment is literal.
RECURSIVE matchOne(_, _)
matchOne(file, pattern) ==
  IF file = <<>> \/ pattern = <<>> THEN file = <<>> /\ pattern = <<>>
  ELSE IF Head(pattern) = "**"
    THEN IF Tail(pattern) = <<>> THEN TRUE
         ELSE \E fr \in 1 .. Len(file) :
                matchOne(SubSeq(file, fr, Len(file)), Tail(pattern))
  ELSE /\ (Head(pattern) = "*" \/ Head(pattern) = Head(file))
       /\ matchOne(Tail(file), Tail(pattern))

\* new Minimatch(glob) throws a TypeError for a glob that is not a string.
MinimatchThrows(glob) == glob = NumberItem

\* Faulty variant: false is returned after the first pattern.
checkGlobs_FirstGlobOnly(changedFiles, globs) ==
  IF globs = <<>> THEN "false"
  ELSE IF MinimatchThrows(Head(globs)) THEN "throw"
  ELSE IF \E i \in 1 .. Len(changedFiles) : matchOne(changedFiles[i], Head(globs))
    THEN "true"
  ELSE "false"

\* checkGlobs: "true" at the first pattern that matches a file, "throw" when a
\* matcher cannot be built, "false" when the patterns are used up.
RECURSIVE checkGlobs(_, _)
checkGlobs(changedFiles, globs) ==
  IF globs = <<>> THEN "false"
  ELSE IF MinimatchThrows(Head(globs)) THEN "throw"
  ELSE IF \E i \in 1 .. Len(changedFiles) : matchOne(changedFiles[i], Head(globs))
    THEN "true"
  ELSE checkGlobs(changedFiles, Tail(globs))

\* Map.set: the value of an existing key is replaced in place, a new key is
\* appended in insertion order.
MapSet(map, label, globs) ==
  IF \E i \in 1 .. Len(map) : map[i].label = label
    THEN [i \in 1 .. Len(map) |->
            IF map[i].label = label THEN [label |-> label, globs |-> globs]
            ELSE map[i]]
  ELSE Append(map, [label |-> label, globs |-> globs])

\* The value shapes getLabelGlobMapFromObject accepts.
IsStringValue(entry) == entry.kind = "string"
\* Faulty variant: whatever is not a string is taken for an array.
IsArrayValue_AnyOther(entry) == entry.kind # "string"
IsArrayValue(entry) == entry.kind = "array"

\* getLabelGlobMapFromObject: the map built so far, or the label of the first
\* entry of an unexpected type, which the thrown message names.
RECURSIVE LabelGlobLoop(_, _)
LabelGlobLoop(entries, labelGlobs) ==
  IF entries = <<>>
    THEN [threw |-> FALSE, label |-> EmptyString, map |-> labelGlobs]
  ELSE LET e == Head(entries) IN
    IF IsStringValue(e)
      THEN LabelGlobLoop(Tail(entries), MapSet(labelGlobs, e.label, <<e.str>>))
    ELSE IF IsArrayValue(e)
      THEN LabelGlobLoop(Tail(entries), MapSet(labelGlobs, e.label, e.arr))
    ELSE [threw |-> TRUE, label |-> e.label, map |-> <<>>]

getLabelGlobMapFromObject(configObj) == LabelGlobLoop(configObj, <<>>)

\* The rule loop of processPR: a label the pull request has is skipped, every
\* other label whose globs match is pushed; a throwing matcher ends the loop.
SkipsLabel(existing, label) == label \in existing

\* Faulty variant: the loop ends at the first label it pushes.
RECURSIVE RuleLoop_FirstOnly(_, _, _, _)
RuleLoop_FirstOnly(existing, changed, rules, acc) ==
  IF rules = <<>> THEN [threw |-> FALSE, labels |-> acc]
  ELSE LET r == Head(rules) IN
    IF SkipsLabel(existing, r.label)
      THEN RuleLoop_FirstOnly(existing, changed, Tail(rules), acc)
    ELSE LET m == checkGlobs(changed, r.globs) IN
      IF m = "throw" THEN [threw |-> TRUE, labels |-> acc]
      ELSE IF m = "true" THEN [threw |-> FALSE, labels |-> Append(acc, r.label)]
      ELSE RuleLoop_FirstOnly(existing, changed, Tail(rules), acc)

RECURSIVE RuleLoop(_, _, _, _)
RuleLoop(existing, changed, rules, acc) ==
  IF rules = <<>> THEN [threw |-> FALSE, labels |-> acc]
  ELSE LET r == Head(rules) IN
    IF SkipsLabel(existing, r.label)
      THEN RuleLoop(existing, changed, Tail(rules), acc)
    ELSE LET m == checkGlobs(changed, r.globs) IN
      IF m = "throw" THEN [threw |-> TRUE, labels |-> acc]
      ELSE RuleLoop(existing, changed, Tail(rules),
                    IF m = "true" THEN Append(acc, r.label) ELSE acc)

\* Faulty variant: the not-found label is pushed without a look at whether it is set.
PushesNotFound_Unset(notFound, labels) == Len(labels) = 0
\* if (notFoundLabel && labelsToAdd.length === 0) labelsToAdd.push(notFoundLabel)
PushesNotFound(notFound, labels) == notFound # EmptyString /\ Len(labels) = 0

\* The labels processPR hands to addLabels (lines 86-100).
LabelsToAdd(existing, changed, rules, notFound) ==
  LET r == RuleLoop(existing, changed, rules, <<>>) IN
    IF r.threw THEN r
    ELSE IF PushesNotFound(notFound, r.labels)
      THEN [threw |-> FALSE, labels |-> Append(r.labels, notFound)]
    ELSE r

\* The platform's addLabels: labels not yet attached are attached, in order.
RECURSIVE Attach(_, _)
Attach(current, labels) ==
  IF labels = <<>> THEN current
  ELSE Attach(IF \E i \in 1 .. Len(current) : current[i] = Head(labels)
                THEN current ELSE Append(current, Head(labels)),
              Tail(labels))

SeqToSet(s) == { s[i] : i \in 1 .. Len(s) }

(***************************************************************************)
(* State.                                                                  *)
(***************************************************************************)
VARIABLES
  \* the inputs of the action and the state of the platform
  opsInput,        \* parseInt of the operations-per-run input
  notFoundLabel,   \* the not-found-label input ("" when it is not given)
  configObject,    \* the parsed configuration file
  payloadPR,       \* number of context.payload.pull_request, 0 when undefined
  changedOf,       \* platform: pull request number -> its changed files
  attached,        \* platform: pull request number -> its attached label names
  attachedAtStart, \* attached, as it was when the run started
  pageSize,        \* platform: pull requests per page of the listing
  \* run()
  runNo,           \* 1 for the first run, 2 for the run that follows it
  pc,              \* where run() stands
  operationsLeft,
  labelGlobs,      \* Map<string, string[]> as a sequence of [label, globs]
  failed,          \* core.setFailed was called
  message,         \* the message of the last core.setFailed
  delivered,       \* pull requests the listing's iterator has yielded so far
  response,        \* the page of the listing being iterated
  prIndex,         \* pull requests of the page already taken by the inner loop
  \* processPR()
  prNumber,
  existingLabels,
  changedFiles,
  labelsToAdd,
  decided,         \* lines 86-100 ran to their end for prNumber
  \* what the run has asked of the platform
  configFetches,   \* repos.getContents calls
  pageFetches,     \* requests of the paginated listing
  filesFetched,    \* pull request numbers of the pulls.listFiles calls
  adds,            \* the issues.addLabels calls: [pr, labels, existing, ok]
  callFailed,      \* some platform call has failed
  \* checkGlobs() called on its own
  checkArgs,       \* its arguments: [changedFiles, globs]
  checkResult      \* what it returned: "true", "false", "throw"; "none" before

inputVars == <<opsInput, notFoundLabel, configObject, payloadPR, changedOf, pageSize,
               attachedAtStart>>
runVars == <<operationsLeft, labelGlobs, failed, message, delivered, response, prIndex>>
prVars == <<prNumber, existingLabels, changedFiles, labelsToAdd, decided>>
callVars == <<configFetches, pageFetches, filesFetched, adds>>
checkVars == <<checkArgs, checkResult>>
vars == <<inputVars, attached, runNo, pc, runVars, prVars, callVars, callFailed,
          checkVars>>

NumPRs == Len(changedOf)
NoMessage == [kind |-> "none", label |-> EmptyString]
NoArgs == [changedFiles |-> <<>>, globs |-> <<>>]

\* The inputs of a run and the platform it runs against.  A triggering pull
\* request is one of the platform's pull requests.
Init ==
  /\ opsInput \in OpsInputs
  /\ configObject \in ConfigObjects
  /\ notFoundLabel \in NotFoundLabels
  /\ \E n \in 0 .. MaxPRs :
       /\ \E prs \in [1 .. n -> PullRequests] :
            /\ changedOf = [i \in 1 .. n |-> prs[i].files]
            /\ attached = [i \in 1 .. n |-> prs[i].labels]
       /\ pageSize \in 1 .. (IF n > 1 THEN MaxPage ELSE 1)
       /\ payloadPR \in 0 .. Min(n, 1)
  /\ attachedAtStart = attached
  /\ runNo = 1
  /\ pc = "start"
  /\ operationsLeft = 0
  /\ labelGlobs = <<>>
  /\ failed = FALSE
  /\ message = NoMessage
  /\ delivered = 0
  /\ response = <<>>
  /\ prIndex = 0
  /\ prNumber = 0
  /\ existingLabels = {}
  /\ changedFiles = <<>>
  /\ labelsToAdd = <<>>
  /\ decided = FALSE
  /\ configFetches = 0
  /\ pageFetches = 0
  /\ filesFetched = <<>>
  /\ adds = <<>>
  /\ callFailed = FALSE
  /\ checkArgs = NoArgs
  /\ checkResult = "none"

(***************************************************************************)
(* run(), lines 6-71.                                                      *)
(***************************************************************************)

\* The catch of run() (lines 67-70): the run is marked failed and ends.
RunCatch(kind, label) ==
  /\ failed' = TRUE
  /\ message' = [kind |-> kind, label |-> label]
  /\ pc' = "done"

\* Faulty variant: zero is let through.
OperationsRejected_Negative(operationsPerRun) == operationsPerRun < 0
\* if (operationsPerRun <= 0) throw
OperationsRejected(operationsPerRun) == operationsPerRun <= 0

\* Lines 8-18: the inputs are read and the budget is set.
Start ==
  /\ pc = "start"
  /\ IF OperationsRejected(opsInput)
       THEN /\ RunCatch("operations-per-run", EmptyString)
            /\ UNCHANGED operationsLeft
       ELSE /\ operationsLeft' = opsInput
            /\ pc' = "config"
            /\ UNCHANGED <<failed, message>>
  /\ UNCHANGED <<checkVars, inputVars, attached, runNo, labelGlobs, delivered, response,
                 prIndex, prVars, callVars, callFailed>>

\* Lines 22-25 and getLabelGlobs: the configuration is fetched, parsed and
\* turned into the map; an unexpected value type throws and ends the run.
GetLabelGlobs ==
  /\ pc = "config"
  /\ configFetches' = configFetches + 1
  /\ LET r == getLabelGlobMapFromObject(configObject) IN
       IF r.threw
         THEN /\ RunCatch("unexpected type", r.label)
              /\ UNCHANGED labelGlobs
         ELSE /\ labelGlobs' = r.map
              /\ pc' = "thisPr"
              /\ UNCHANGED <<failed, message>>
  /\ UNCHANGED <<checkVars, inputVars, attached, runNo, operationsLeft, delivered, response,
                 prIndex, prVars, pageFetches, filesFetched, adds, callFailed>>

\* fetchContent: repos.getContents fails.
FetchContentFails ==
  /\ pc = "config"
  /\ configFetches' = configFetches + 1
  /\ callFailed' = TRUE
  /\ RunCatch("platform", EmptyString)
  /\ UNCHANGED <<checkVars, inputVars, attached, runNo, operationsLeft, labelGlobs, delivered,
                 response, prIndex, prVars, pageFetches, filesFetched, adds>>

\* getThisPr, lines 113-125: undefined without a triggering pull request;
\* with one, pullRequest.labels (an array of the event's JSON payload) is
\* called as a function, which throws a TypeError before a Set is built.
getThisPr(pullRequest) ==
  IF pullRequest = 0 THEN [defined |-> FALSE, threw |-> FALSE]
  ELSE [defined |-> TRUE, threw |-> TRUE]

\* Lines 28-43: the triggering pull request, or else the sweep.  The return
\* of line 32 is reached by no run: getThisPr throws whenever it is defined.
GetThisPr ==
  /\ pc = "thisPr"
  /\ IF getThisPr(payloadPR).threw
       THEN RunCatch("TypeError", EmptyString)
       ELSE /\ pc' = "list"
            /\ UNCHANGED <<failed, message>>
  /\ UNCHANGED <<checkVars, inputVars, attached, runNo, operationsLeft, labelGlobs, delivered,
                 response, prIndex, prVars, callVars, callFailed>>

\* The iterator of line 45 requests a page: the first one always, a further
\* one when the listing has more pull requests.
\* As line 46 does, each response is taken
\* to iterate over the pull requests of the page.
MorePages == pageFetches = 0 \/ delivered < NumPRs

PageOf(from) ==
  [i \in 1 .. Min(pageSize, NumPRs - from) |->
     [number |-> from + i, labels |-> attached[from + i]]]

FetchPage ==
  /\ pc = "list"
  /\ MorePages
  /\ pageFetches' = pageFetches + 1
  /\ response' = PageOf(delivered)
  /\ delivered' = delivered + Len(PageOf(delivered))
  /\ prIndex' = 0
  /\ pc' = "loop"
  /\ UNCHANGED <<checkVars, inputVars, attached, runNo, operationsLeft, labelGlobs, failed,
                 message, prVars, configFetches, filesFetched, adds, callFailed>>

FetchPageFails ==
  /\ pc = "list"
  /\ MorePages
  /\ pageFetches' = pageFetches + 1
  /\ callFailed' = TRUE
  /\ RunCatch("listing", EmptyString)
  /\ UNCHANGED <<checkVars, inputVars, attached, runNo, operationsLeft, labelGlobs, delivered,
                 response, prIndex, prVars, configFetches, filesFetched, adds>>

\* Faulty variant: the loop over the pages does not end with the last page.
ListingDone_NeverEnds ==
  /\ pc = "list"
  /\ ~MorePages
  /\ pc' = "loop"
  /\ UNCHANGED <<checkVars, inputVars, attached, runNo, runVars, prVars, callVars, callFailed>>
\* The iterator is used up: run() returns.
ListingDone ==
  /\ pc = "list"
  /\ ~MorePages
  /\ pc' = "done"
  /\ UNCHANGED <<checkVars, inputVars, attached, runNo, runVars, prVars, callVars, callFailed>>

\* Faulty variant: the budget check is off by one.
BudgetSpent_BelowZero(left) == left < 0
\* if (operationsLeft <= 0) return
BudgetSpent(left) == left <= 0

\* Lines 48-53: the budget is used up, run() returns.
BudgetExhausted ==
  /\ pc = "loop"
  /\ prIndex < Len(response)
  /\ BudgetSpent(operationsLeft)
  /\ pc' = "done"
  /\ UNCHANGED <<checkVars, inputVars, attached, runNo, runVars, prVars, callVars, callFailed>>

\* Lines 46-62: the next pull request of the page goes to processPR.
NextPR ==
  /\ pc = "loop"
  /\ prIndex < Len(response)
  /\ ~BudgetSpent(operationsLeft)
  /\ prIndex' = prIndex + 1
  /\ prNumber' = response[prIndex + 1].number
  /\ existingLabels' = SetOfSpread(response[prIndex + 1].labels)
  /\ changedFiles' = <<>>
  /\ labelsToAdd' = <<>>
  /\ decided' = FALSE
  /\ pc' = "files"
  /\ UNCHANGED <<checkVars, inputVars, attached, runNo, operationsLeft, labelGlobs, failed,
                 message, delivered, response, callVars, callFailed>>

\* The inner loop is through the page: the iterator is asked for the next.
PageDone ==
  /\ pc = "loop"
  /\ prIndex = Len(response)
  /\ pc' = "list"
  /\ UNCHANGED <<checkVars, inputVars, attached, runNo, runVars, prVars, callVars, callFailed>>

(***************************************************************************)
(* processPR(), lines 75-111.                                              *)
(***************************************************************************)

\* Faulty variant: the error is thrown on to the catch of run().
ProcessCatch_Rethrow(kind) == RunCatch(kind, EmptyString)
\* Faulty variant: the error is swallowed, the run is not marked failed.
ProcessCatch_Swallow(kind) ==
  /\ pc' = "loop"
  /\ UNCHANGED <<failed, message>>
\* The catch of processPR (lines 106-110): the run is marked failed,
\* processPR returns false and the sweep goes on.
ProcessCatch(kind) ==
  /\ failed' = TRUE
  /\ message' = [kind |-> kind, label |-> EmptyString]
  /\ pc' = "loop"

\* Lines 84-105 up to the addLabels call: the changed files arrive and the
\* labels to add are decided.
GetChangedFiles ==
  /\ pc = "files"
  /\ filesFetched' = Append(filesFetched, prNumber)
  /\ changedFiles' = changedOf[prNumber]
  /\ LET d == LabelsToAdd(existingLabels, changedOf[prNumber], labelGlobs,
                          notFoundLabel) IN
       IF d.threw
         THEN /\ ProcessCatch("TypeError")
              /\ labelsToAdd' = d.labels
              /\ UNCHANGED decided
         ELSE /\ labelsToAdd' = d.labels
              /\ decided' = TRUE
              /\ pc' = (IF Len(d.labels) > 0 THEN "add" ELSE "loop")
              /\ UNCHANGED <<failed, message>>
  /\ UNCHANGED <<checkVars, inputVars, attached, runNo, operationsLeft, labelGlobs, delivered,
                 response, prIndex, prNumber, existingLabels, configFetches,
                 pageFetches, adds, callFailed>>

GetChangedFilesFails ==
  /\ pc = "files"
  /\ filesFetched' = Append(filesFetched, prNumber)
  /\ callFailed' = TRUE
  /\ ProcessCatch("platform")
  /\ UNCHANGED <<checkVars, inputVars, attached, runNo, operationsLeft, labelGlobs, delivered,
                 response, prIndex, prVars, configFetches, pageFetches, adds>>

\* Faulty variant: a successful label-add call is not counted.
CountOperation_Never(left) == left
\* Faulty variant: one operation is counted for every label added.
CountOperation_PerLabel(left) == left - Len(labelsToAdd)
\* operationsLeft -= 1
CountOperation(left) == left - 1

\* Faulty variant: the call carries the first label only.
AddCall_FirstLabel(ok) ==
  [pr |-> prNumber, labels |-> <<Head(labelsToAdd)>>, existing |-> existingLabels,
   ok |-> ok]
\* client.issues.addLabels({issue_number: prNumber, labels: labels})
AddCall(ok) ==
  [pr |-> prNumber, labels |-> labelsToAdd, existing |-> existingLabels, ok |-> ok]

\* Lines 103-104 and 63: the labels are added, processPR returns true and
\* the sweep counts one operation.
AddLabels ==
  /\ pc = "add"
  /\ adds' = Append(adds, AddCall(TRUE))
  /\ attached' = [attached EXCEPT ![prNumber] = Attach(@, labelsToAdd)]
  /\ operationsLeft' = CountOperation(operationsLeft)
  /\ pc' = "loop"
  /\ UNCHANGED <<checkVars, inputVars, runNo, labelGlobs, failed, message, delivered, response,
                 prIndex, prVars, configFetches, pageFetches, filesFetched,
                 callFailed>>

AddLabelsFails ==
  /\ pc = "add"
  /\ adds' = Append(adds, AddCall(FALSE))
  /\ callFailed' = TRUE
  /\ ProcessCatch("platform")
  /\ UNCHANGED <<checkVars, inputVars, attached, runNo, operationsLeft, labelGlobs, delivered,
                 response, prIndex, prVars, configFetches, pageFetches, filesFetched>>

\* The action runs again on the same repository, after a run that was not
\* marked failed: the platform keeps the labels the first run attached.
Rerun ==
  /\ pc = "done"
  /\ runNo = 1
  /\ ~failed
  /\ runNo' = 2
  /\ pc' = "start"
  /\ operationsLeft' = 0
  /\ labelGlobs' = <<>>
  /\ failed' = FALSE
  /\ message' = NoMessage
  /\ delivered' = 0
  /\ response' = <<>>
  /\ prIndex' = 0
  /\ prNumber' = 0
  /\ existingLabels' = {}
  /\ changedFiles' = <<>>
  /\ labelsToAdd' = <<>>
  /\ decided' = FALSE
  /\ configFetches' = 0
  /\ pageFetches' = 0
  /\ filesFetched' = <<>>
  /\ adds' = <<>>
  /\ attachedAtStart' = attached
  /\ UNCHANGED <<checkVars, opsInput, notFoundLabel, configObject, payloadPR,
                 changedOf, pageSize, attached, callFailed>>

Next ==
  \/ Start
  \/ GetLabelGlobs
  \/ FetchContentFails
  \/ GetThisPr
  \/ FetchPage
  \/ FetchPageFails
  \/ ListingDone
  \/ BudgetExhausted
  \/ NextPR
  \/ PageDone
  \/ GetChangedFiles
  \/ GetChangedFilesFails
  \/ AddLabels
  \/ AddLabelsFails
  \/ Rerun

Spec == Init /\ [][Next]_vars

\* run() is one thread of control and every platform call returns or throws:
\* a step that can be taken is taken.
\* The configurations are those under which the decision for a pull request
\* comes out empty, non-empty and as an error, and one that is rejected.
TerminationConfigs ==
  { <<StringEntry(LabelA, DocsGlob), ArrayEntry(LabelAB, <<LiteralGlob, StarGlob>>)>>,
    <<StringEntry(LabelAB, DocsGlob), ArrayEntry(LabelA, <<NumberItem>>)>>,
    <<OtherEntry(LabelA, "number")>> }
InitTermination == Init /\ configObject \in TerminationConfigs
FairSpec == InitTermination /\ [][Next]_vars /\ WF_vars(Next)

(***************************************************************************)
(* checkGlobs(), lines 194-207, called on its own with any arguments.      *)
(***************************************************************************)
InitCheckGlobs ==
  /\ checkArgs \in CheckArgs
  /\ checkResult = "none"
  /\ pc = "checkGlobs"
  /\ opsInput = 1
  /\ configObject = <<>>
  /\ notFoundLabel = EmptyString
  /\ changedOf = <<>>
  /\ attached = <<>>
  /\ attachedAtStart = <<>>
  /\ pageSize = 1
  /\ payloadPR = 0
  /\ runNo = 1
  /\ operationsLeft = 0
  /\ labelGlobs = <<>>
  /\ failed = FALSE
  /\ message = NoMessage
  /\ delivered = 0
  /\ response = <<>>
  /\ prIndex = 0
  /\ prNumber = 0
  /\ existingLabels = {}
  /\ changedFiles = <<>>
  /\ labelsToAdd = <<>>
  /\ decided = FALSE
  /\ configFetches = 0
  /\ pageFetches = 0
  /\ filesFetched = <<>>
  /\ adds = <<>>
  /\ callFailed = FALSE

CallCheckGlobs ==
  /\ pc = "checkGlobs"
  /\ checkResult' = checkGlobs(checkArgs.changedFiles, checkArgs.globs)
  /\ pc' = "checked"
  /\ UNCHANGED <<checkArgs, inputVars, attached, runNo, runVars, prVars, callVars,
                 callFailed>>

NextCheckGlobs == CallCheckGlobs

SpecCheckGlobs == InitCheckGlobs /\ [][NextCheckGlobs]_vars

(***************************************************************************)
(* Properties.                                                             *)
(***************************************************************************)

NoDuplicates(seq) == \A i, j \in 1 .. Len(seq) : i # j => seq[i] # seq[j]

\* A rule whose patterns match a changed file, by the match relation alone.
RuleMatches(rule, changed) ==
  \E g \in 1 .. Len(rule.globs) : \E f \in 1 .. Len(changed) :
    matchOne(changed[f], rule.globs[g])

\* This run sweeps the listing: the inputs passed lines 15-33.
Sweeping == pc \in {"list", "loop", "files", "add"}

\* The decision the run takes for pull request i of the listing.
DecisionOf(i) ==
  LabelsToAdd(SetOfSpread(attachedAtStart[i]), changedOf[i], labelGlobs,
              notFoundLabel)
NeedsChange(i) == ~DecisionOf(i).threw /\ Len(DecisionOf(i).labels) > 0
Needing == { i \in 1 .. NumPRs : NeedsChange(i) }
\* The pull requests needing a change that come before pull request i.
NeedingBefore(i) == { j \in Needing : j < i }

\* C1: the labels handed to the label-add call hold no label of the
\* existing-label set processPR was given, and no label twice.
C1_NeverAddsExisting ==
  pc = "add" =>
    /\ \A i \in 1 .. Len(labelsToAdd) : labelsToAdd[i] \notin existingLabels
    /\ NoDuplicates(labelsToAdd)

\* C2: in a second run over the same pull requests, with no failing platform
\* call, no label-add call holds a label that is attached to that pull request.
C2_RerunAddsNothingAttached ==
  (runNo = 2 /\ pc = "add" /\ ~callFailed) =>
    \A i \in 1 .. Len(labelsToAdd) :
      labelsToAdd[i] \notin SeqToSet(attached[prNumber])

\* C3: a sweep with no failure, over more pull requests needing a change than
\* the budget K, ends after exactly K label-add calls, for the first K pull
\* requests needing a change, without fetching the changed files of the
\* (K+1)-th; and at every point of a sweep the budget is down by exactly the
\* number of evaluated pull requests needing a change, so a pull request
\* with an empty decision does not take from it wherever it sits.
C3_BudgetStopsSweep ==
  /\ (pc = "done" /\ payloadPR = 0 /\ pageFetches > 0 /\ ~failed /\ ~callFailed
        /\ Cardinality(Needing) > opsInput)
     => /\ Len(adds) = opsInput
        /\ \A k \in 1 .. Len(adds) :
             /\ adds[k].pr \in Needing
             /\ Cardinality(NeedingBefore(adds[k].pr)) = k - 1
        /\ \A i \in Needing :
             Cardinality(NeedingBefore(i)) >= opsInput
               => i \notin SeqToSet(filesFetched)
  /\ (Sweeping /\ ~callFailed)
     => operationsLeft - (IF pc = "add" THEN 1 ELSE 0)
          = opsInput - Cardinality(Needing \cap SeqToSet(filesFetched))

C3_Witness ==
  /\ pc = "done" /\ payloadPR = 0 /\ pageFetches > 0 /\ ~failed /\ ~callFailed
  /\ Cardinality(Needing) > opsInput
  /\ Len(adds) = opsInput
  /\ Len(filesFetched) < NumPRs

\* C4: no page of the listing is requested in a state where
\* operationsLeft <= 0.
C4_NoPageFetchOnceSpent ==
  [][pageFetches' = pageFetches + 1 => operationsLeft > 0]_vars

\* C5: from a state of the sweep where operationsLeft <= 0, the run fetches
\* no changed files and adds no labels any more, and operationsLeft stays
\* <= 0 to the end of the run.
C5_NothingAfterBudgetSpent ==
  [][(pc # "start" /\ operationsLeft <= 0 /\ runNo' = runNo)
       => /\ filesFetched' = filesFetched
          /\ adds' = adds
          /\ operationsLeft' <= 0]_vars

C5_Witness ==
  /\ pc = "done" /\ opsInput > 0 /\ operationsLeft <= 0
  /\ Len(adds) = opsInput
  /\ Len(filesFetched) < NumPRs

\* C6: the fallback label is handed to the label-add call only when no rule
\* of the configuration matches a changed file of the pull request.
C6_FallbackOnlyWithoutMatch ==
  (pc = "add" /\ \E i \in 1 .. Len(labelsToAdd) : labelsToAdd[i] = notFoundLabel)
    => \A r \in 1 .. Len(labelGlobs) : ~RuleMatches(labelGlobs[r], changedFiles)

\* C7: when every rule is skipped (its label is in the existing-label set)
\* or matches no changed file, the decision is exactly <<fallback>> for a
\* non-empty fallback label, and is empty, with no label-add call for the
\* pull request, for an empty or absent one.
NoRuleLabelAppended ==
  \A r \in 1 .. Len(labelGlobs) :
    \/ labelGlobs[r].label \in existingLabels
    \/ ~RuleMatches(labelGlobs[r], changedFiles)

C7_FallbackDecision ==
  (decided /\ NoRuleLabelAppended) =>
    IF notFoundLabel # EmptyString
      THEN labelsToAdd = <<notFoundLabel>>
      ELSE /\ labelsToAdd = <<>>
           /\ pc # "add"
           /\ \A k \in 1 .. Len(adds) : adds[k].pr # prNumber

C7_Witness ==
  /\ decided /\ NoRuleLabelAppended
  /\ Len(labelGlobs) > 0
  /\ changedFiles = <<>>
  /\ notFoundLabel # EmptyString
  /\ labelsToAdd = <<notFoundLabel>>

\* C8: a run with a triggering pull request and no failing platform call
\* ends unfailed, having fetched the changed files of that pull request
\* only, listed nothing, and added labels at most once.
C8_SinglePullRequest ==
  (pc = "done" /\ payloadPR # 0 /\ ~callFailed /\ opsInput > 0
     /\ configObject \in ValidConfigs)
    => /\ ~failed
       /\ filesFetched = <<payloadPR>>
       /\ pageFetches = 0
       /\ Len(adds) <= 1

\* C9: the existing-label set the sweep gives processPR is the set of the
\* label names attached to the pull request in the listing.
C9_ExistingLabelsOfListing ==
  pc \in {"files", "add"} => existingLabels = SeqToSet(response[prIndex].labels)

\* C10: with a configuration value that is neither a string nor an array,
\* the run fetches no changed files, lists nothing and adds no label, and,
\* the configuration being read, ends marked failed with a message naming a
\* label of such a value.
BadLabels == { configObject[i].label : i \in { j \in 1 .. Len(configObject) :
                 configObject[j].kind \notin {"string", "array"} } }

C10_BadConfigFailsRun ==
  BadLabels # {} =>
    /\ filesFetched = <<>> /\ pageFetches = 0 /\ adds = <<>>
    /\ (pc = "done" /\ opsInput > 0 /\ ~callFailed)
         => /\ failed
            /\ message.kind = "unexpected type"
            /\ message.label \in BadLabels

C10_Witness ==
  /\ pc = "done" /\ opsInput > 0 /\ ~callFailed /\ NumPRs > 0
  /\ Len(configObject) > 1
  /\ configObject[1].kind = "string"
  /\ message.label = configObject[2].label
  /\ failed


\* C11: every rule of the map getLabelGlobMapFromObject returns has a
\* non-empty pattern list whose elements are non-empty strings.
C11_RulesHavePatterns ==
  pc \notin {"start", "config"} =>
    \A r \in 1 .. Len(labelGlobs) :
      /\ Len(labelGlobs[r].globs) > 0
      /\ \A g \in 1 .. Len(labelGlobs[r].globs) :
           /\ labelGlobs[r].globs[g] # NumberItem
           /\ labelGlobs[r].globs[g] # EmptyString


\* The label-add calls of the run that returned successfully.
OkAdds == { k \in 1 .. Len(adds) : adds[k].ok }

\* C12 as claimed: the label-add calls of a run, failed ones counted, are
\* never more than the operation budget.
C12_AddCallsWithinBudget ==
  opsInput > 0 => Len(adds) <= opsInput

\* C12, amended: the label-add calls of a run that succeed are never more
\* than the operation budget (and a run without a positive budget makes none).
C12_OkAddsWithinBudget ==
  IF opsInput > 0 THEN Cardinality(OkAdds) <= opsInput ELSE adds = <<>>

C12_Witness ==
  /\ pc = "done" /\ opsInput = 1
  /\ Len(adds) = 2
  /\ ~adds[1].ok /\ adds[2].ok


\* C13: every label-add call of a run is for a pull request whose changed
\* files were fetched and whose decision is not empty, carries exactly the
\* labels of that decision, and no pull request gets two calls.
C13_OneBatchedAddPerPR ==
  /\ \A k \in 1 .. Len(adds) :
       /\ adds[k].pr \in SeqToSet(filesFetched)
       /\ adds[k].pr \in Needing
       /\ adds[k].labels = DecisionOf(adds[k].pr).labels
  /\ \A k, l \in 1 .. Len(adds) : k # l => adds[k].pr # adds[l].pr

C13_Witness ==
  /\ pc = "done"
  /\ Len(filesFetched) = 2
  /\ Len(adds) = 1
  /\ adds[1].pr = 2
  /\ adds[1].labels = <<LabelAB, LabelA>>


\* C14: a run in which a platform call failed or a matcher threw while a
\* pull request was processed is marked failed; a run marked failed stays
\* so to its end; and the labels of a label-add call that succeeded stay
\* attached.
C14_ErrorMarksRunFailed ==
  [][/\ callFailed' => failed'
     /\ \A i \in SeqToSet(filesFetched') : (DecisionOf(i).threw)' => failed'
     /\ (failed /\ runNo' = runNo) => failed'
     /\ \A k \in 1 .. Len(adds') :
          adds'[k].ok =>
            SeqToSet(adds'[k].labels) \subseteq SeqToSet(attached'[adds'[k].pr])
    ]_vars

C14_Witness ==
  /\ pc = "done" /\ failed /\ callFailed
  /\ filesFetched = <<1, 2>>
  /\ Len(adds) = 2
  /\ adds[1].ok /\ ~adds[2].ok
  /\ SeqToSet(adds[1].labels) \subseteq SeqToSet(attached[1])


\* C15: with an operations-per-run input of zero or less the run makes no
\* platform call, and its first step marks it failed and ends it.
C15_NonPositiveBudgetFails ==
  opsInput <= 0 =>
    /\ configFetches = 0 /\ pageFetches = 0
    /\ filesFetched = <<>> /\ adds = <<>>
    /\ pc \in {"start", "done"}
    /\ pc = "done" => (failed /\ message.kind = "operations-per-run")

C15_Witness ==
  /\ opsInput = 0 /\ pc = "done" /\ failed
  /\ NumPRs > 0
  /\ configObject \in ValidConfigs


\* The rules of the map that qualify for the pull request being processed:
\* their label is not in the existing-label set and a pattern of theirs
\* matches a changed file.
Qualifying ==
  { r \in 1 .. Len(labelGlobs) :
      /\ labelGlobs[r].label \notin existingLabels
      /\ RuleMatches(labelGlobs[r], changedFiles) }
NthQualifying(k) ==
  CHOOSE r \in Qualifying : Cardinality({ q \in Qualifying : q < r }) = k - 1

\* C16: a decision that runs to its end holds, in the order of the map,
\* exactly the labels of the qualifying rules, all of them; without a
\* qualifying rule it holds no rule label (it is empty or the fallback).
C16_AllQualifyingLabelsInOrder ==
  decided =>
    IF Qualifying = {}
      THEN labelsToAdd \in {<<>>, <<notFoundLabel>>}
      ELSE /\ Len(labelsToAdd) = Cardinality(Qualifying)
           /\ \A k \in 1 .. Len(labelsToAdd) :
                labelsToAdd[k] = labelGlobs[NthQualifying(k)].label

C16_Witness ==
  /\ decided
  /\ existingLabels # {}
  /\ Cardinality(Qualifying) = 2
  /\ labelsToAdd = <<LabelAB, LabelA>>


\* A pattern of the list matches a file of the list, by the match relation.
SomeGlobMatches(files, globs) ==
  \E g \in 1 .. Len(globs) : \E f \in 1 .. Len(files) : matchOne(files[f], globs[g])

AllStrings(globs) == \A g \in 1 .. Len(globs) : globs[g] # NumberItem

\* C17: for patterns that are strings, checkGlobs returns true if and only
\* if a pattern of the list matches a file of the list, and false otherwise;
\* false, then, for an empty file list and for an empty pattern list.
C17_CheckGlobsIffSomeMatch ==
  (checkResult # "none" /\ AllStrings(checkArgs.globs)) =>
    /\ checkResult \in {"true", "false"}
    /\ checkResult = "true"
         <=> SomeGlobMatches(checkArgs.changedFiles, checkArgs.globs)
    /\ (checkArgs.changedFiles = <<>> \/ checkArgs.globs = <<>>)
         => checkResult = "false"

C17_Witness ==
  /\ checkResult = "true"
  /\ Len(checkArgs.globs) = 2 /\ Len(checkArgs.changedFiles) = 2
  /\ ~SomeGlobMatches(checkArgs.changedFiles, <<checkArgs.globs[1]>>)
  /\ ~SomeGlobMatches(<<checkArgs.changedFiles[1]>>, checkArgs.globs)


\* C18: at every point of a sweep 0 <= operationsLeft <= operationsPerRun,
\* and operationsPerRun - operationsLeft is the number of label-add calls
\* that have returned successfully so far; a step of the sweep that is not a
\* successful label-add call (a failed changed-files fetch, a failed
\* label-add call, an empty decision among them) leaves operationsLeft as it
\* was.
C18_BudgetCountsOkAdds ==
  [][/\ Sweeping' =>
          /\ 0 <= operationsLeft' /\ operationsLeft' <= opsInput'
          /\ opsInput' - operationsLeft' = Cardinality(OkAdds)'
     /\ (Sweeping /\ Cardinality(OkAdds)' = Cardinality(OkAdds))
          => operationsLeft' = operationsLeft]_vars

C18_Witness ==
  /\ pc = "loop" /\ opsInput = 2
  /\ Len(adds) = 2 /\ adds[1].ok /\ ~adds[2].ok
  /\ operationsLeft = 1


\* The operations left once pull request i has been processed.
LeftAfter(i) == opsInput - Cardinality({ k \in OkAdds : adds[k].pr <= i })
\* The processing of pull request i ended in an error.
Errored(i) ==
  \/ DecisionOf(i).threw
  \/ \E k \in 1 .. Len(adds) : adds[k].pr = i /\ ~adds[k].ok
\* The pull requests are evaluated one after another in listing order.
InListingOrder == \A k \in 1 .. Len(filesFetched) : filesFetched[k] = k

C20_RunTerminates ==
  /\ (pc = "start") ~> (pc = "done")
  /\ [][(pc = "done" /\ runNo' = runNo) => UNCHANGED callVars]_vars

C20_Witness ==
  /\ pc = "done" /\ message.kind = "listing"
  /\ pageFetches = 2 /\ Len(filesFetched) = 1 /\ Len(adds) = 1
  /\ operationsLeft > 0

====
